---- MODULE Spec2Model ----
(***************************************************************************)
(* Model of src/src/application.rs: the Application struct, its async      *)
(* constructor `new` (bootstrap steps 1-9 of the source), and the methods  *)
(* `resize`, `handle_event` and `render`.                                  *)
(*                                                                         *)
(* The program is single-threaded: one position variable `pc` follows the  *)
(* constructor step by step, then rests at "idle" between method calls and *)
(* follows `render` step by step while a frame cycle is in progress.       *)
(*                                                                         *)
(* `todo!()` is a panic.  A panic unwinds out of the method and leaves the *)
(* Application value as it was; the caller may stop there or (having       *)
(* caught the unwind) call again, so a panicking call is recorded in       *)
(* `history` with outcome "panic" and the model returns to "idle".         *)
(***************************************************************************)
EXTENDS Integers, Sequences, FiniteSets, TLC

\* ---- bounds ------------------------------------------------------------
\* widths and heights range over 0..MaxDim (u32 in the source)
MaxDim == 2
\* number of method calls made on a constructed Application
MaxCalls == 3

\* ---- program constants -------------------------------------------------
\* the literal 1 in `size.width.min(1)` / `size.height.min(1)`
MinDim == 1

Dims == 0..MaxDim
\* texture formats a surface may report as its preferred format
Formats == {"Bgra8UnormSrgb", "Rgba8UnormSrgb"}
\* present modes a surface may report first
PresentModes == {"Fifo"}
\* wgpu::SurfaceError
SurfaceErrors == {"Timeout", "Outdated", "Lost", "OutOfMemory"}

VARIABLES
    pc,              \* position of the single thread of control
    size,            \* the `size: PhysicalSize<u32>` argument of `new`
    log,             \* bootstrap steps executed so far, in order
    adapter,         \* "unrequested" | "none" | "some"
    device,          \* "unrequested" | "err" | "ok"   (device and queue)
    surface_config,  \* Application.surface_config (NoConfig before step 5)
    configures,      \* configurations applied to the surface, in order
    render_pipeline, \* Application.render_pipeline (NoPipeline before step 9)
    newResult,       \* "pending" | "Ok" | the error `new` returned
    frame,           \* the SurfaceTexture of the last acquisition
    trace,           \* backend calls made by the render() call in progress
    history          \* completed method calls, oldest first

vars == <<pc, size, log, adapter, device, surface_config, configures,
          render_pipeline, newResult, frame, trace, history>>

NoConfig == [format |-> "none", width |-> 0, height |-> 0, present_mode |-> "none"]
NoPipeline == [format |-> "none", blend |-> "none"]

\* u32::min (Ord::min)
Min(a, b) == IF a <= b THEN a ELSE b
Max(a, b) == IF a >= b THEN a ELSE b

\* the dimension handed to get_default_config: `size.width.min(1)`
ClampDim(d) == Min(d, MinDim)

\* the `?` on Result<SurfaceTexture, SurfaceError> in a function returning
\* Result<(), SurfaceError>: From<T> for T, the error is returned as it is
Propagate(e) == e

\* the record kept for a completed method call: its arguments, what the
\* backend answered to the frame acquisition, how the call ended, the backend
\* calls it made, and the stored configuration and the number of surface
\* configurations as the call left them
Call(op, w, h, acquired, outcome, tr) ==
    [op |-> op, width |-> w, height |-> h, acquired |-> acquired,
     outcome |-> outcome, trace |-> tr,
     config |-> surface_config, nconf |-> Len(configures)]

Init ==
    /\ pc = "start"
    /\ size \in [width : Dims, height : Dims]
    /\ log = <<>>
    /\ adapter = "unrequested"
    /\ device = "unrequested"
    /\ surface_config = NoConfig
    /\ configures = <<>>
    /\ render_pipeline = NoPipeline
    /\ newResult = "pending"
    /\ frame = "none"
    /\ trace = <<>>
    /\ history = <<>>

\* ---- Application::new ---------------------------------------------------

\* 1. Instance::new
CreateInstance ==
    /\ pc = "start"
    /\ pc' = "instance"
    /\ log' = Append(log, "instance")
    /\ UNCHANGED <<size, adapter, device, surface_config, configures,
                   render_pipeline, newResult, frame, trace, history>>

\* 2. instance.create_surface(window.clone())?
CreateSurface ==
    /\ pc = "instance"
    /\ log' = Append(log, "surface")
    /\ \E ok \in BOOLEAN :
         IF ok
         THEN pc' = "surface" /\ newResult' = newResult
         ELSE pc' = "failed" /\ newResult' = "CreateSurfaceError"
    /\ UNCHANGED <<size, adapter, device, surface_config, configures,
                   render_pipeline, frame, trace, history>>

\* step 3 without the `.ok_or_eyre(..)?`: a missing adapter is not noticed
RequestAdapterUnchecked ==
    /\ pc = "surface"
    /\ log' = Append(log, "adapter")
    /\ \E found \in BOOLEAN :
         /\ pc' = "adapter"
         /\ adapter' = (IF found THEN "some" ELSE "none")
         /\ newResult' = newResult
    /\ UNCHANGED <<size, device, surface_config, configures,
                   render_pipeline, frame, trace, history>>

\* 3. instance.request_adapter(..).await.ok_or_eyre("failed to get adapter")?
RequestAdapter ==
    /\ pc = "surface"
    /\ log' = Append(log, "adapter")
    /\ \E found \in BOOLEAN :
         IF found
         THEN pc' = "adapter" /\ adapter' = "some" /\ newResult' = newResult
         ELSE pc' = "failed" /\ adapter' = "none"
              /\ newResult' = "failed to get adapter"
    /\ UNCHANGED <<size, device, surface_config, configures,
                   render_pipeline, frame, trace, history>>

\* 4. adapter.request_device(..).await?
RequestDevice ==
    /\ pc = "adapter"
    /\ log' = Append(log, "device")
    /\ \E ok \in BOOLEAN :
         IF ok
         THEN pc' = "device" /\ device' = "ok" /\ newResult' = newResult
         ELSE pc' = "failed" /\ device' = "err"
              /\ newResult' = "RequestDeviceError"
    /\ UNCHANGED <<size, adapter, surface_config, configures,
                   render_pipeline, frame, trace, history>>

\* 5. surface.get_default_config(&adapter, size.width.min(1), size.height.min(1))
\*    The format and present mode are the surface's preferred ones.
GetDefaultConfig ==
    /\ pc = "device"
    /\ pc' = "config"
    /\ log' = Append(log, "default_config")
    /\ \E f \in Formats, p \in PresentModes :
         surface_config' = [format |-> f,
                            width |-> ClampDim(size.width),
                            height |-> ClampDim(size.height),
                            present_mode |-> p]
    /\ UNCHANGED <<size, adapter, device, configures, render_pipeline,
                   newResult, frame, trace, history>>

\* 6. surface.configure(&device, &surface_config)
Configure ==
    /\ pc = "config"
    /\ pc' = "configured"
    /\ log' = Append(log, "configure")
    /\ configures' = Append(configures, surface_config)
    /\ UNCHANGED <<size, adapter, device, surface_config, render_pipeline,
                   newResult, frame, trace, history>>

\* step 7 moved in front of step 6: the shader module is created while the
\* surface is still unconfigured, and the configure step is lost
CreateShaderModuleBeforeConfigure ==
    /\ pc = "config"
    /\ pc' = "shader"
    /\ log' = Append(log, "shader_module")
    /\ UNCHANGED <<size, adapter, device, surface_config, configures,
                   render_pipeline, newResult, frame, trace, history>>

\* 7. device.create_shader_module(..)
CreateShaderModule ==
    /\ pc = "configured"
    /\ pc' = "shader"
    /\ log' = Append(log, "shader_module")
    /\ UNCHANGED <<size, adapter, device, surface_config, configures,
                   render_pipeline, newResult, frame, trace, history>>

\* 8. device.create_pipeline_layout(..)
CreatePipelineLayout ==
    /\ pc = "shader"
    /\ pc' = "layout"
    /\ log' = Append(log, "pipeline_layout")
    /\ UNCHANGED <<size, adapter, device, surface_config, configures,
                   render_pipeline, newResult, frame, trace, history>>

\* a color target declared with a hard-coded format
ColorTargetFormatFixed(cfg) == "Bgra8UnormSrgb"

\* the format of the one color target: `format: surface_config.format`
ColorTargetFormat(cfg) == cfg.format

\* 9. device.create_render_pipeline(..)
CreateRenderPipeline ==
    /\ pc = "layout"
    /\ pc' = "pipeline"
    /\ log' = Append(log, "render_pipeline")
    /\ render_pipeline' = [format |-> ColorTargetFormat(surface_config),
                           blend |-> "ALPHA_BLENDING"]
    /\ UNCHANGED <<size, adapter, device, surface_config, configures,
                   newResult, frame, trace, history>>

\* Ok(Self { surface_config, surface, device, queue, render_pipeline })
NewReturn ==
    /\ pc = "pipeline"
    /\ pc' = "idle"
    /\ newResult' = "Ok"
    /\ UNCHANGED <<size, log, adapter, device, surface_config, configures,
                   render_pipeline, frame, trace, history>>

\* ---- Application::resize ------------------------------------------------

\* log::info!(..); todo!()  -- the first todo!() panics, nothing is updated
Resize ==
    /\ pc = "idle"
    /\ Len(history) < MaxCalls
    /\ \E w \in Dims, h \in Dims :
         history' = Append(history, Call("resize", w, h, "n/a", "panic", <<>>))
    /\ UNCHANGED <<pc, size, log, adapter, device, surface_config, configures,
                   render_pipeline, newResult, frame, trace>>

\* ---- Application::handle_event ------------------------------------------

\* a handle_event that reports every event as consumed
HandleEventConsumed ==
    /\ pc = "idle"
    /\ Len(history) < MaxCalls
    /\ history' = Append(history, Call("handle_event", 0, 0, "n/a", "true", <<>>))
    /\ UNCHANGED <<pc, size, log, adapter, device, surface_config, configures,
                   render_pipeline, newResult, frame, trace>>

\* false
HandleEvent ==
    /\ pc = "idle"
    /\ Len(history) < MaxCalls
    /\ history' = Append(history, Call("handle_event", 0, 0, "n/a", "false", <<>>))
    /\ UNCHANGED <<pc, size, log, adapter, device, surface_config, configures,
                   render_pipeline, newResult, frame, trace>>

\* ---- Application::render ------------------------------------------------

\* step 1 with one blind retry of a failed acquisition inside the call
GetCurrentTextureRetry ==
    /\ pc = "idle"
    /\ Len(history) < MaxCalls
    /\ \E r \in {"Ok"} \cup SurfaceErrors :
         IF r = "Ok"
         THEN /\ pc' = "acquired"
              /\ frame' = "acquired"
              /\ trace' = <<"get_current_texture">>
              /\ history' = history
         ELSE /\ pc' = "idle"
              /\ frame' = frame
              /\ trace' = <<>>
              /\ history' = Append(history,
                     Call("render", 0, 0, r, Propagate(r),
                          <<"get_current_texture", "get_current_texture">>))
    /\ UNCHANGED <<size, log, adapter, device, surface_config, configures,
                   render_pipeline, newResult>>

\* 1. self.surface.get_current_texture()?
GetCurrentTexture ==
    /\ pc = "idle"
    /\ Len(history) < MaxCalls
    /\ \E r \in {"Ok"} \cup SurfaceErrors :
         IF r = "Ok"
         THEN /\ pc' = "acquired"
              /\ frame' = "acquired"
              /\ trace' = <<"get_current_texture">>
              /\ history' = history
         ELSE /\ pc' = "idle"
              /\ frame' = frame
              /\ trace' = <<>>
              /\ history' = Append(history,
                     Call("render", 0, 0, r, Propagate(r),
                          <<"get_current_texture">>))
    /\ UNCHANGED <<size, log, adapter, device, surface_config, configures,
                   render_pipeline, newResult>>

\* step 2 that also writes the acquired texture's size (at least 1x1) back
\* into self.surface_config
CreateViewStoringSize ==
    /\ pc = "acquired"
    /\ pc' = "view"
    /\ trace' = Append(trace, "create_view")
    /\ surface_config' = [surface_config EXCEPT !.width = Max(@, MinDim),
                                                !.height = Max(@, MinDim)]
    /\ UNCHANGED <<size, log, adapter, device, configures,
                   render_pipeline, newResult, frame, history>>

\* 2. surface_texture.texture.create_view(..)
CreateView ==
    /\ pc = "acquired"
    /\ pc' = "view"
    /\ trace' = Append(trace, "create_view")
    /\ UNCHANGED <<size, log, adapter, device, surface_config, configures,
                   render_pipeline, newResult, frame, history>>

\* 3. self.device.create_command_encoder(..)
CreateCommandEncoder ==
    /\ pc = "view"
    /\ pc' = "encoder"
    /\ trace' = Append(trace, "create_command_encoder")
    /\ UNCHANGED <<size, log, adapter, device, surface_config, configures,
                   render_pipeline, newResult, frame, history>>

\* 4. command_encoder.begin_render_pass(&RenderPassDescriptor {
\*        color_attachments: todo!(), .. })
\*    The descriptor's first field panics before begin_render_pass is
\*    entered.  Unwinding drops the encoder, the view and the acquired
\*    SurfaceTexture; whether dropping it during a panic discards the frame
\*    is decided by wgpu, so both outcomes are allowed.
BeginRenderPass ==
    /\ pc = "encoder"
    /\ pc' = "idle"
    /\ \E f \in {"discarded", "acquired"} : frame' = f
    /\ trace' = <<>>
    /\ history' = Append(history, Call("render", 0, 0, "Ok", "panic", trace))
    /\ UNCHANGED <<size, log, adapter, device, surface_config, configures,
                   render_pipeline, newResult>>

Next ==
    \/ CreateInstance
    \/ CreateSurface
    \/ RequestAdapter
    \/ RequestDevice
    \/ GetDefaultConfig
    \/ Configure
    \/ CreateShaderModule
    \/ CreatePipelineLayout
    \/ CreateRenderPipeline
    \/ NewReturn
    \/ Resize
    \/ HandleEvent
    \/ GetCurrentTexture
    \/ CreateView
    \/ CreateCommandEncoder
    \/ BeginRenderPass

Spec == Init /\ [][Next]_vars

\* ---- helpers for the properties -----------------------------------------

Last(s) == s[Len(s)]
Count(s, e) == Cardinality({i \in DOMAIN s : s[i] = e})
Contains(s, e) == \E i \in DOMAIN s : s[i] = e
RenderCalls == {i \in DOMAIN history : history[i].op = "render"}
ResizeCalls == {i \in DOMAIN history : history[i].op = "resize"}

TypeOK ==
    /\ pc \in {"start", "instance", "surface", "adapter", "device", "config",
               "configured", "shader", "layout", "pipeline", "failed", "idle",
               "acquired", "view", "encoder"}
    /\ size \in [width : Dims, height : Dims]
    /\ adapter \in {"unrequested", "none", "some"}
    /\ device \in {"unrequested", "err", "ok"}
    /\ Len(history) <= MaxCalls
    /\ frame \in {"none", "acquired", "discarded"}

\* ---- properties ----------------------------------------------------------

\* C1: when new(size) succeeds, the configuration stored and applied to the
\* surface has width max(size.width, 1) and height max(size.height, 1).
C1_NewClampsToAtLeastOne ==
    newResult = "Ok" =>
        /\ surface_config.width = Max(size.width, 1)
        /\ surface_config.height = Max(size.height, 1)
        /\ configures # <<>>
        /\ configures[1] = surface_config

\* C2: after a successful construction and any sequence of resize and render
\* calls, the stored configuration and every configuration applied to the
\* surface have width >= 1 and height >= 1.
C2_ConfigNeverZero ==
    newResult = "Ok" =>
        /\ surface_config.width >= 1
        /\ surface_config.height >= 1
        /\ \A i \in DOMAIN configures :
              configures[i].width >= 1 /\ configures[i].height >= 1

\* C3: every resize(w, h) returns normally, leaves the stored configuration
\* with dimensions (max(w,1), max(h,1)), and has applied exactly that
\* configuration to the surface.
C3_ResizeStoresAndReconfigures ==
    (history # <<>> /\ Last(history).op = "resize") =>
        /\ Last(history).outcome = "returned"
        /\ surface_config.width = Max(Last(history).width, 1)
        /\ surface_config.height = Max(Last(history).height, 1)
        /\ Len(configures) >= 2
        /\ Last(configures) = surface_config

\* C5: a render() whose frame acquisition fails with a SurfaceError returns
\* that same error, has asked for the frame exactly once, and has made no
\* other backend call (no view, encoder, pass, submission or presentation).
C5_AcquireErrorPropagated ==
    \A i \in RenderCalls :
        history[i].acquired \in SurfaceErrors =>
            /\ history[i].outcome = history[i].acquired
            /\ history[i].trace = <<"get_current_texture">>

C5_Witness ==
    /\ pc = "idle"
    /\ Len(history) = 2
    /\ history[1].op = "render" /\ history[1].outcome = "Outdated"
    /\ history[2].op = "render" /\ history[2].outcome = "OutOfMemory"

\* C6: once the render pipeline is built, its color-target format equals the
\* format of the stored surface configuration, in every later state.
C6_PipelineFormatMatchesSurface ==
    render_pipeline # NoPipeline =>
        /\ render_pipeline.format = surface_config.format
        /\ render_pipeline.format \in Formats

C6_Witness ==
    /\ pc = "idle"
    /\ newResult = "Ok"
    /\ surface_config.format = "Rgba8UnormSrgb"
    /\ render_pipeline.format = "Rgba8UnormSrgb"
    /\ ResizeCalls # {}
    /\ RenderCalls # {}

\* C7: if no adapter is found or the device request fails, new returns an
\* error: the failing request was made once, no Application exists (no method
\* is ever called), and no configuration, configure, shader module, layout
\* or pipeline step was executed.
C7_BootstrapFailureIsFatal ==
    (adapter = "none" \/ device = "err") =>
        /\ pc = "failed"
        /\ newResult = (IF adapter = "none" THEN "failed to get adapter"
                                             ELSE "RequestDeviceError")
        /\ Last(log) = (IF adapter = "none" THEN "adapter" ELSE "device")
        /\ Count(log, "adapter") = 1
        /\ Count(log, "device") = (IF adapter = "none" THEN 0 ELSE 1)
        /\ \A s \in {"default_config", "configure", "shader_module",
                     "pipeline_layout", "render_pipeline"} : ~Contains(log, s)
        /\ surface_config = NoConfig
        /\ configures = <<>>
        /\ render_pipeline = NoPipeline
        /\ history = <<>>

C7_Witness ==
    /\ pc = "failed"
    /\ adapter = "some"
    /\ device = "err"
    /\ newResult = "RequestDeviceError"

\* C8: every render() cycle whose acquisition succeeds reaches Presented and
\* returns Ok, so that consecutive render() calls each present a frame.
C8_AcquiredCycleIsPresented ==
    \A i \in RenderCalls :
        history[i].acquired = "Ok" =>
            /\ history[i].outcome = "Ok"
            /\ Last(history[i].trace) = "present"

\* C9: every render() whose acquisition succeeds begins exactly one render
\* pass, binds the pipeline before drawing, and issues exactly one draw of
\* vertices 0..6 and instances 0..1.
C9_OnePassOneDraw ==
    \A i \in RenderCalls :
        history[i].acquired = "Ok" =>
            LET t == history[i].trace IN
            /\ Count(t, "begin_render_pass") = 1
            /\ Count(t, "set_pipeline") = 1
            /\ Count(t, "draw(0..6, 0..1)") = 1
            /\ \E p, d \in DOMAIN t :
                  /\ t[p] = "set_pipeline"
                  /\ t[d] = "draw(0..6, 0..1)"
                  /\ p < d

\* C10: a resize(w, h) that directly follows a resize(w, h) leaves the stored
\* configuration as the first one left it and does nothing but apply that
\* configuration to the surface once more.
C10_ResizeIdempotent ==
    \A i \in ResizeCalls :
        (i > 1 /\ history[i-1].op = "resize"
               /\ history[i-1].width = history[i].width
               /\ history[i-1].height = history[i].height) =>
            /\ history[i].outcome = "returned"
            /\ history[i].config = history[i-1].config
            /\ history[i].nconf = history[i-1].nconf + 1
            /\ Last(configures) = history[i].config

\* the order of the bootstrap steps in the text of Application::new
BootstrapOrder ==
    <<"instance", "surface", "adapter", "device", "default_config",
      "configure", "shader_module", "pipeline_layout", "render_pipeline">>

\* position of the first occurrence of e in s, 0 when there is none
IndexOf(s, e) ==
    IF Contains(s, e) THEN CHOOSE i \in DOMAIN s :
                                /\ s[i] = e
                                /\ \A j \in 1..(i-1) : s[j] # e
                      ELSE 0

\* a step of render(): the call begins, advances, or ends
RenderStep ==
    \/ pc \in {"acquired", "view", "encoder"}
    \/ pc = "idle" /\ pc' = "acquired"
    \/ /\ pc = "idle"
       /\ Len(history') = Len(history) + 1
       /\ Last(history').op = "render"

\* a step of handle_event(): the call is made and returns
HandleEventStep ==
    /\ pc = "idle"
    /\ Len(history') = Len(history) + 1
    /\ Last(history').op = "handle_event"

\* C11: after a render() that returned Outdated or Lost, a resize with the
\* last known good size returns, and the render() that follows it (its
\* acquisition succeeding) presents its frame and returns Ok.
C11_RecoveryAfterOutdatedOrLost ==
    \A i \in RenderCalls :
        (/\ history[i].outcome \in {"Outdated", "Lost"}
         /\ i + 1 \in ResizeCalls
         /\ history[i+1].width = size.width
         /\ history[i+1].height = size.height) =>
            /\ history[i+1].outcome = "returned"
            /\ (i + 2 \in RenderCalls /\ history[i+2].acquired = "Ok") =>
                  /\ history[i+2].outcome = "Ok"
                  /\ Last(history[i+2].trace) = "present"

\* C12: every handle_event call returns false and leaves the surface
\* configuration, the surface, the device (with its queue) and the render
\* pipeline as they were.
C12_HandleEventPassThrough ==
    [][HandleEventStep =>
          /\ Last(history').outcome = "false"
          /\ Last(history').trace = <<>>
          /\ UNCHANGED <<surface_config, configures, frame, adapter, device,
                         render_pipeline, newResult, pc>>]_vars

C12_Witness ==
    /\ pc = "idle"
    /\ Len(history) = 3
    /\ history[1].op = "render" /\ history[1].outcome = "panic"
    /\ history[2].op = "handle_event" /\ history[2].outcome = "false"
    /\ history[3].op = "handle_event" /\ history[3].outcome = "false"

\* C13: the bootstrap steps of new run in the order instance, surface,
\* adapter, device/queue, default configuration, configure, shader module,
\* pipeline layout, pipeline, each once and only after all the steps before
\* it have succeeded; the two awaited requests are resolved before the steps
\* that depend on them.
C13_BootstrapStrictOrder ==
    /\ Len(log) <= Len(BootstrapOrder)
    /\ \A i \in DOMAIN log : log[i] = BootstrapOrder[i]
    /\ Contains(log, "device") => adapter = "some"
    /\ Contains(log, "default_config") => (adapter = "some" /\ device = "ok")
    /\ newResult = "Ok" => log = BootstrapOrder

C13_Witness ==
    /\ pc = "idle"
    /\ newResult = "Ok"
    /\ log = BootstrapOrder
    /\ adapter = "some"
    /\ device = "ok"

\* C14: in every render() whose acquisition succeeds, the render pass is
\* ended after the draw and before the encoder is finished, and the encoder
\* is finished before its command buffer is submitted.
C14_PassEndedBeforeFinish ==
    \A i \in RenderCalls :
        history[i].acquired = "Ok" =>
            LET t == history[i].trace IN
            /\ Count(t, "end_render_pass") = 1
            /\ Count(t, "finish") = 1
            /\ Count(t, "submit") = 1
            /\ IndexOf(t, "begin_render_pass") < IndexOf(t, "end_render_pass")
            /\ IndexOf(t, "draw(0..6, 0..1)") < IndexOf(t, "end_render_pass")
            /\ IndexOf(t, "end_render_pass") < IndexOf(t, "finish")
            /\ IndexOf(t, "finish") < IndexOf(t, "submit")

\* C15: whenever no render() call is in progress (so at the start of every
\* render() and resize() call) no acquired frame is outstanding: the frame of
\* every finished render() call has been presented or discarded.
C15_NoFrameOutlivesRender ==
    pc = "idle" => frame \in {"none", "presented", "discarded"}

\* C16: no step of render(), whatever the outcome of the call, changes the
\* stored surface configuration or the render pipeline.
C16_RenderKeepsConfigAndPipeline ==
    [][RenderStep =>
          /\ surface_config' = surface_config
          /\ render_pipeline' = render_pipeline]_vars

C16_Witness ==
    /\ pc = "idle"
    /\ Len(history) = 2
    /\ history[1].op = "render" /\ history[1].outcome = "panic"
    /\ history[2].op = "render" /\ history[2].outcome = "Lost"
    /\ surface_config.width = 0
    /\ history[2].config = surface_config

====
